---- MODULE Spec2Model ----
(***************************************************************************)
(* Model of src/main.py: a JSON configuration loader / validator / printer *)
(* driven by a small CLI.  One run of main() is one behaviour.             *)
(***************************************************************************)
EXTENDS Integers, Sequences, FiniteSets, TLC

VARIABLES
    fileKind,    \* what is at args.config: missing, openfail, readfail, badjson, nonobject, object
    fileJson,    \* the JSON object stored in the file (function key -> value) when fileKind = "object"
    pc,          \* position of main()
    fileOpen,    \* the file handle of load_json is open
    openCount,   \* number of open() calls so far
    raw,         \* main's `raw`: <<>> before load_json returned, <<dict>> after
    validated,   \* validate_config's local dict `validated`, in insertion order
    exc,         \* the exception in flight / caught: <<>> or <<e>>
    cfg,         \* main's `cfg`: <<>> before validate_config returned, <<dict>> after
    stdout,      \* lines written to standard output
    stderr,      \* lines written to standard error
    exitCode     \* -1 while running, else the process exit code

vars == <<fileKind, fileJson, pc, fileOpen, openCount, raw, validated, exc, cfg,
          stdout, stderr, exitCode>>

-----------------------------------------------------------------------------
(* Bounds of the model *)

MaxLen == 3        \* longest generated string
MaxInt == 3        \* largest generated number

-----------------------------------------------------------------------------
(* JSON / Python values.  A number is n (+ 1/2 when h); sp marks the       *)
(* non-finite floats and the integers too large for float().               *)

Val(t, b, n, h, sp, s) == [t |-> t, b |-> b, n |-> n, h |-> h, sp |-> sp, s |-> s]

Null      == Val("null",   FALSE, 0, FALSE, "fin", <<>>)
Array     == Val("array",  FALSE, 0, FALSE, "fin", <<>>)
Object    == Val("object", FALSE, 0, FALSE, "fin", <<>>)
PyBool(x) == Val("bool",   x,     0, FALSE, "fin", <<>>)
PyInt(i)  == Val("int",    FALSE, i, FALSE, "fin", <<>>)
BigInt    == Val("int",    FALSE, 0, FALSE, "big", <<>>)
PyFloat(i, half) == Val("float", FALSE, i, half, "fin", <<>>)
Inf       == Val("float",  FALSE, 0, FALSE, "inf", <<>>)
NaN       == Val("float",  FALSE, 0, FALSE, "nan", <<>>)
Str(chars) == Val("str",   FALSE, 0, FALSE, "fin", chars)

\* isinstance(v, str), isinstance(v, bool), isinstance(v, (int, float)):
\* bool is a subclass of int
IsStr(v)    == v.t = "str"
IsBool(v)   == v.t = "bool"
IsNumber(v) == v.t \in {"bool", "int", "float"}

\* bool(v) of a number
Truthy(v) ==
    CASE v.t = "bool"  -> v.b
      [] v.t = "int"   -> v.sp = "big" \/ v.n # 0
      [] v.t = "float" -> v.sp # "fin" \/ v.n # 0 \/ v.h
      [] OTHER         -> FALSE

\* float(v) raises OverflowError for an int beyond the float range
FloatOverflows(v) == v.t = "int" /\ v.sp = "big"

\* float(v).is_integer()
FloatIsInteger(v) ==
    CASE v.t = "bool"  -> TRUE
      [] v.t = "int"   -> TRUE
      [] v.t = "float" -> v.sp = "fin" /\ ~v.h
      [] OTHER         -> FALSE

\* int(v) of a number with an integral value
IntOf(v) == IF v.t = "bool" THEN (IF v.b THEN 1 ELSE 0) ELSE v.n

-----------------------------------------------------------------------------
(* Characters and the str methods the code uses.  SUP2 is U+00B2           *)
(* (superscript two: isdigit() but not decimal), AR3 is U+0663             *)
(* (Arabic-Indic three: a decimal digit).                                  *)

Whitespace == {" "}
AsciiDigits == {"0", "1", "2", "3", "4", "5", "6", "7", "8", "9"}
DecimalChars == AsciiDigits \cup {"AR3"}
DigitChars == DecimalChars \cup {"SUP2"}

DigitValue(c) ==
    CASE c = "0" -> 0 [] c = "1" -> 1 [] c = "2" -> 2 [] c = "3" -> 3
      [] c = "4" -> 4 [] c = "5" -> 5 [] c = "6" -> 6 [] c = "7" -> 7
      [] c = "8" -> 8 [] c = "9" -> 9 [] c = "AR3" -> 3 [] OTHER -> 0

LowerChar(c) ==
    CASE c = "Y" -> "y" [] c = "E" -> "e" [] c = "S" -> "s" [] c = "N" -> "n"
      [] c = "O" -> "o" [] c = "T" -> "t" [] c = "R" -> "r" [] c = "U" -> "u"
      [] c = "F" -> "f" [] c = "A" -> "a" [] c = "L" -> "l" [] c = "B" -> "b"
      [] OTHER -> c

\* str.lower()
Lower(s) == [i \in 1..Len(s) |-> LowerChar(s[i])]

RECURSIVE LStrip(_)
LStrip(s) == IF s # <<>> /\ Head(s) \in Whitespace THEN LStrip(Tail(s)) ELSE s

RECURSIVE RStrip(_)
RStrip(s) == IF s # <<>> /\ s[Len(s)] \in Whitespace
             THEN RStrip(SubSeq(s, 1, Len(s) - 1)) ELSE s

\* str.strip()
Strip(s) == RStrip(LStrip(s))

\* str.isdigit()
IsDigit(s) == s # <<>> /\ \A i \in 1..Len(s) : s[i] \in DigitChars

\* int(s) raises ValueError unless every character is a decimal digit
IntParses(s) == s # <<>> /\ \A i \in 1..Len(s) : s[i] \in DecimalChars

RECURSIVE ParseInt(_)
ParseInt(s) == IF s = <<>> THEN 0
               ELSE 10 * ParseInt(SubSeq(s, 1, Len(s) - 1)) + DigitValue(s[Len(s)])

DigitChar(d) ==
    CASE d = 0 -> "0" [] d = 1 -> "1" [] d = 2 -> "2" [] d = 3 -> "3"
      [] d = 4 -> "4" [] d = 5 -> "5" [] d = 6 -> "6" [] d = 7 -> "7"
      [] d = 8 -> "8" [] OTHER -> "9"

RECURSIVE NatToStr(_)
NatToStr(n) == IF n < 10 THEN <<DigitChar(n)>>
               ELSE Append(NatToStr(n \div 10), DigitChar(n % 10))

\* str(v) as used by the f-string of print_kv
PyStr(v) ==
    CASE v.t = "str"  -> v.s
      [] v.t = "bool" -> IF v.b THEN <<"T", "r", "u", "e">> ELSE <<"F", "a", "l", "s", "e">>
      [] v.t = "int"  -> IF v.n < 0 THEN <<"-">> \o NatToStr(-v.n) ELSE NatToStr(v.n)
      [] OTHER        -> <<"?">>

-----------------------------------------------------------------------------
(* Python dicts that remember insertion order: a sequence of (key, value)  *)
(* entries with distinct keys.                                             *)

DictKeys(d) == {d[i].k : i \in 1..Len(d)}

\* d[k] = v
DictSet(d, key, v) ==
    IF key \in DictKeys(d)
    THEN [i \in 1..Len(d) |-> IF d[i].k = key THEN [k |-> key, v |-> v] ELSE d[i]]
    ELSE Append(d, [k |-> key, v |-> v])

\* d[k] for a key of d
DictGet(d, key) == (CHOOSE i \in 1..Len(d) : d[i].k = key) \* index of the entry

DictVal(d, key) == d[DictGet(d, key)].v

-----------------------------------------------------------------------------
(* Exceptions *)

Exception(cls, msg, key) == [cls |-> cls, msg |-> msg, key |-> key]

ConfigError(msg, key) == Exception("ConfigError", msg, key)

-----------------------------------------------------------------------------
(* The configuration schema *)

EXPECTED_KEYS == <<"package_name", "repo", "test_mode", "version", "max_depth">>

-----------------------------------------------------------------------------
(* coerce_bool: [ok |-> FALSE] stands for the raised ConfigError *)

TrueTokens  == {<<"t", "r", "u", "e">>, <<"y", "e", "s">>, <<"1">>}
FalseTokens == {<<"f", "a", "l", "s", "e">>, <<"n", "o">>, <<"0">>}

\* coerce_bool without .lower(): the tokens are matched case-sensitively
coerce_bool_no_lower(value) ==
    IF IsBool(value) THEN [ok |-> TRUE, val |-> value.b]
    ELSE IF IsNumber(value) THEN [ok |-> TRUE, val |-> Truthy(value)]
    ELSE IF IsStr(value) /\ Strip(value.s) \in TrueTokens
         THEN [ok |-> TRUE, val |-> TRUE]
    ELSE IF IsStr(value) /\ Strip(value.s) \in FalseTokens
         THEN [ok |-> TRUE, val |-> FALSE]
    ELSE [ok |-> FALSE, val |-> FALSE]

coerce_bool(value) ==
    IF IsBool(value) THEN [ok |-> TRUE, val |-> value.b]
    ELSE IF IsNumber(value) THEN [ok |-> TRUE, val |-> Truthy(value)]
    ELSE IF IsStr(value) /\ Lower(Strip(value.s)) \in TrueTokens
         THEN [ok |-> TRUE, val |-> TRUE]
    ELSE IF IsStr(value) /\ Lower(Strip(value.s)) \in FalseTokens
         THEN [ok |-> TRUE, val |-> FALSE]
    ELSE [ok |-> FALSE, val |-> FALSE]

\* the if / elif / else of validate_config that computes md_int:
\* res is "ok", "type" (the ConfigError of the else branch), or the class
\* of the exception float() / int() raises
coerce_max_depth(md) ==
    IF IsNumber(md) /\ FloatOverflows(md) THEN [res |-> "OverflowError", n |-> 0]
    ELSE IF IsNumber(md) /\ FloatIsInteger(md) THEN [res |-> "ok", n |-> IntOf(md)]
    ELSE IF IsStr(md) /\ IsDigit(Strip(md.s))
         THEN IF IntParses(Strip(md.s))
              THEN [res |-> "ok", n |-> ParseInt(Strip(md.s))]
              ELSE [res |-> "ValueError", n |-> 0]
    ELSE [res |-> "type", n |-> 0]

-----------------------------------------------------------------------------
(* validate_config, one operator per check.  A frame is the routine's      *)
(* position, its local dict and the exception it raised.                   *)

Raise(f, e)  == [f EXCEPT !.pc = "raised", !.exc = <<e>>]
Goto(f, p)   == [f EXCEPT !.pc = p]
Store(f, key, v, p) == [f EXCEPT !.validated = DictSet(@, key, v), !.pc = p]

\* the first key of keys that is not in c: <<>> or <<key>>
RECURSIVE FirstMissing(_, _)
FirstMissing(keys, c) ==
    IF keys = <<>> THEN <<>>
    ELSE IF Head(keys) \notin DOMAIN c THEN <<Head(keys)>>
    ELSE FirstMissing(Tail(keys), c)

Reverse(s) == [i \in 1..Len(s) |-> s[Len(s) + 1 - i]]

\* check_presence scanning the keys from the last to the first
check_presence_reversed(f, c) ==
    LET m == FirstMissing(Reverse(EXPECTED_KEYS), c)
    IN  IF m # <<>> THEN Raise(f, ConfigError("missing_key", m[1]))
        ELSE Goto(f, "check_package_name")

\* check_presence that also rejects the keys it does not know
check_presence_strict(f, c) ==
    LET m == FirstMissing(EXPECTED_KEYS, c)
    IN  IF m # <<>> THEN Raise(f, ConfigError("missing_key", m[1]))
        ELSE IF \E key \in DOMAIN c : \A i \in 1..Len(EXPECTED_KEYS) : EXPECTED_KEYS[i] # key
        THEN Raise(f, ConfigError("unknown_key", ""))
        ELSE Goto(f, "check_package_name")

check_presence(f, c) ==
    LET m == FirstMissing(EXPECTED_KEYS, c)
    IN  IF m # <<>> THEN Raise(f, ConfigError("missing_key", m[1]))
        ELSE Goto(f, "check_package_name")

check_package_name(f, c) ==
    LET pn == c["package_name"]
    IN  IF ~IsStr(pn) \/ Strip(pn.s) = <<>>
        THEN Raise(f, ConfigError("package_name_invalid", "package_name"))
        ELSE Store(f, "package_name", Str(Strip(pn.s)), "check_repo")

check_repo(f, c) ==
    LET repo == c["repo"]
    IN  IF ~IsStr(repo) \/ Strip(repo.s) = <<>>
        THEN Raise(f, ConfigError("repo_invalid", "repo"))
        ELSE Store(f, "repo", Str(Strip(repo.s)), "check_test_mode")

check_test_mode(f, c) ==
    LET r == coerce_bool(c["test_mode"])
    IN  IF ~r.ok
        THEN Raise(f, ConfigError("test_mode_coercion", "test_mode"))
        ELSE Store(f, "test_mode", PyBool(r.val), "check_version")

\* check_version that returns what it has instead of raising
check_version_returns(f, c) ==
    LET version == c["version"]
    IN  IF ~IsStr(version) \/ Strip(version.s) = <<>>
        THEN Goto(f, "return")
        ELSE Goto(f, "check_max_depth")

\* the checked version is not assigned to validated
check_version(f, c) ==
    LET version == c["version"]
    IN  IF ~IsStr(version) \/ Strip(version.s) = <<>>
        THEN Raise(f, ConfigError("version_invalid", "version"))
        ELSE Goto(f, "check_max_depth")

check_max_depth(f, c) ==
    LET r == coerce_max_depth(c["max_depth"])
    IN  IF r.res = "type"
        THEN Raise(f, ConfigError("max_depth_type", "max_depth"))
        ELSE IF r.res # "ok"
        THEN Raise(f, Exception(r.res, "builtin", "max_depth"))
        ELSE IF r.n < 1
        THEN Raise(f, ConfigError("max_depth_range", "max_depth"))
        ELSE Store(f, "max_depth", PyInt(r.n), "return")

ValidatePcs == {"check_presence", "check_package_name", "check_repo",
                "check_test_mode", "check_version", "check_max_depth"}

\* one check of validate_config
validate_step(f, c) ==
    CASE f.pc = "check_presence"     -> check_presence(f, c)
      [] f.pc = "check_package_name" -> check_package_name(f, c)
      [] f.pc = "check_repo"         -> check_repo(f, c)
      [] f.pc = "check_test_mode"    -> check_test_mode(f, c)
      [] f.pc = "check_version"      -> check_version(f, c)
      [] f.pc = "check_max_depth"    -> check_max_depth(f, c)
      [] OTHER                       -> f

\* validate_config(c) run to its return or raise
RECURSIVE validate_from(_, _)
validate_from(f, c) ==
    IF f.pc \in ValidatePcs THEN validate_from(validate_step(f, c), c) ELSE f

validate_config(c) ==
    validate_from([pc |-> "check_presence", validated |-> <<>>, exc |-> <<>>], c)

\* print_kv's f"{k}={v}"
Line(k, v) == <<k, "=">> \o PyStr(v)

print_kv(d) == [i \in 1..Len(d) |-> Line(d[i].k, d[i].v)]

-----------------------------------------------------------------------------
(* The inputs: what the file holds *)

StringsUpTo(A, n) == UNION {[1..k -> A] : k \in 0..n}

Numbers == {PyInt(i) : i \in -1..MaxInt}
           \cup {PyFloat(i, half) : i \in -1..MaxInt, half \in BOOLEAN}
           \cup {BigInt, Inf, NaN}

Scalars == {Null, Array, Object, PyBool(TRUE), PyBool(FALSE)} \cup Numbers

Absent == Val("absent", FALSE, 0, FALSE, "fin", <<>>)

\* the scenario of the specification: a valid configuration
Scenario ==
    [package_name |-> Str(<<" ", "p", "k", "g", " ">>),
     repo         |-> Str(<<"h", "t", "t", "p", "s", ":", "/", "/", "x">>),
     test_mode    |-> Str(<<"y", "e", "s">>),
     version      |-> Str(<<"1", ".", "0">>),
     max_depth    |-> Str(<<"4">>),
     comment      |-> Absent]

TextValues == {Str(s) : s \in StringsUpTo({" ", "a", "B"}, MaxLen)}

ModeValues ==
    {Str(s) : s \in StringsUpTo({" ", "0", "1", "n", "o", "N", "O", "y", "e", "s"}, MaxLen)}
    \cup {Str(<<"Y", "E", "S">>), Str(<<"m", "a", "y", "b", "e">>),
          Str(<<"t", "r", "u", "e">>), Str(<<" ", "T", "r", "u", "e", " ">>),
          Str(<<"f", "a", "l", "s", "e">>), Str(<<"F", "A", "L", "S", "E">>),
          Str(<<"t", "r", "u", "e", "s">>)}

DepthValues ==
    {Str(s) : s \in StringsUpTo({" ", "0", "3", "-", ".", "SUP2", "AR3"}, MaxLen)}
    \cup {Str(<<"a", "b", "c">>), Str(<<"3", ".", "5">>), Str(<<"-", "1">>)}

\* one field varied over many values, the others as in the scenario
DeepInputs ==
    {[Scenario EXCEPT !.package_name = v] : v \in Scalars \cup TextValues}
    \cup {[Scenario EXCEPT !.repo = v] : v \in Scalars \cup TextValues}
    \cup {[Scenario EXCEPT !.version = v] : v \in Scalars \cup TextValues}
    \cup {[Scenario EXCEPT !.test_mode = v] : v \in Scalars \cup ModeValues}
    \cup {[Scenario EXCEPT !.max_depth = v] : v \in Scalars \cup DepthValues}

\* every field varied at once over a few values, absence included
FewText == {Absent, Str(<<" ", "a", " ">>), Str(<<" ">>), PyInt(3)}

WideInputs ==
    {[package_name |-> a, repo |-> b, test_mode |-> c, version |-> d,
      max_depth |-> e, comment |-> x] :
        a \in FewText, b \in FewText,
        c \in {Absent, PyBool(TRUE), Str(<<"m", "a", "y", "b", "e">>), PyInt(0)},
        d \in FewText,
        e \in {Absent, PyInt(3), PyInt(0), Str(<<"SUP2">>), PyFloat(3, TRUE), PyBool(TRUE)},
        x \in {Absent, Str(<<"a">>), Null}}

\* the JSON object: the fields that are present
AsObject(choice) ==
    [key \in {q \in DOMAIN choice : choice[q] # Absent} |-> choice[key]]

FileKinds == {"missing", "openfail", "readfail", "badjson", "nonobject", "object"}

-----------------------------------------------------------------------------
(* main *)

Init ==
    /\ fileKind \in FileKinds
    /\ IF fileKind = "object"
       THEN \E choice \in DeepInputs \cup WideInputs : fileJson = AsObject(choice)
       ELSE fileJson = AsObject([comment |-> Absent])
    /\ pc = "load_exists"
    /\ fileOpen = FALSE
    /\ openCount = 0
    /\ raw = <<>>
    /\ validated = <<>>
    /\ exc = <<>>
    /\ cfg = <<>>
    /\ stdout = <<>>
    /\ stderr = <<>>
    /\ exitCode = -1

\* load_json: os.path.exists(path)
LoadExists ==
    /\ pc = "load_exists"
    /\ IF fileKind = "missing"
       THEN pc' = "raised" /\ exc' = <<ConfigError("not_found", "")>>
       ELSE pc' = "load_open" /\ exc' = exc
    /\ UNCHANGED <<fileKind, fileJson, fileOpen, openCount, raw, validated, cfg,
                   stdout, stderr, exitCode>>

\* load_json: open(path, "r", encoding="utf-8")
LoadOpen ==
    /\ pc = "load_open"
    /\ openCount' = openCount + 1
    /\ IF fileKind = "openfail"
       THEN pc' = "raised" /\ exc' = <<Exception("OSError", "builtin", "")>>
                           /\ fileOpen' = fileOpen
       ELSE pc' = "load_read" /\ exc' = exc /\ fileOpen' = TRUE
    /\ UNCHANGED <<fileKind, fileJson, raw, validated, cfg, stdout, stderr, exitCode>>

\* LoadRead without the with block: f is closed on the normal path only
LoadRead_leaks ==
    /\ pc = "load_read"
    /\ CASE fileKind = "readfail" ->
              pc' = "raised" /\ exc' = <<Exception("UnicodeDecodeError", "builtin", "")>>
                             /\ fileOpen' = fileOpen
         [] fileKind = "badjson" ->
              pc' = "raised" /\ exc' = <<ConfigError("json_parse", "")>>
                             /\ fileOpen' = fileOpen
         [] OTHER ->
              pc' = "load_isdict" /\ exc' = exc /\ fileOpen' = FALSE
    /\ UNCHANGED <<fileKind, fileJson, openCount, raw, validated, cfg, stdout,
                   stderr, exitCode>>

\* load_json: json.load(f) and the exit of the with block, which closes f
\* on the normal and on the exceptional path
LoadRead ==
    /\ pc = "load_read"
    /\ fileOpen' = FALSE
    /\ CASE fileKind = "readfail" ->
              pc' = "raised" /\ exc' = <<Exception("UnicodeDecodeError", "builtin", "")>>
         [] fileKind = "badjson" ->
              pc' = "raised" /\ exc' = <<ConfigError("json_parse", "")>>
         [] OTHER ->
              pc' = "load_isdict" /\ exc' = exc
    /\ UNCHANGED <<fileKind, fileJson, openCount, raw, validated, cfg, stdout,
                   stderr, exitCode>>

\* load_json: isinstance(data, dict), return data; main: raw = load_json(...)
LoadIsDict ==
    /\ pc = "load_isdict"
    /\ IF fileKind = "nonobject"
       THEN pc' = "raised" /\ exc' = <<ConfigError("root_not_object", "")>> /\ raw' = raw
       ELSE pc' = "check_presence" /\ exc' = exc /\ raw' = <<fileJson>>
    /\ UNCHANGED <<fileKind, fileJson, fileOpen, openCount, validated, cfg, stdout,
                   stderr, exitCode>>

Frame == [pc |-> pc, validated |-> validated, exc |-> exc]

ValidateApply(g) ==
    /\ pc' = g.pc
    /\ validated' = g.validated
    /\ exc' = g.exc
    /\ UNCHANGED <<fileKind, fileJson, fileOpen, openCount, raw, cfg, stdout,
                   stderr, exitCode>>

CheckPresence    == pc = "check_presence"     /\ ValidateApply(check_presence(Frame, raw[1]))
CheckPackageName == pc = "check_package_name" /\ ValidateApply(check_package_name(Frame, raw[1]))
CheckRepo        == pc = "check_repo"         /\ ValidateApply(check_repo(Frame, raw[1]))
CheckTestMode    == pc = "check_test_mode"    /\ ValidateApply(check_test_mode(Frame, raw[1]))
CheckVersion     == pc = "check_version"      /\ ValidateApply(check_version(Frame, raw[1]))
CheckMaxDepth    == pc = "check_max_depth"    /\ ValidateApply(check_max_depth(Frame, raw[1]))

\* validate_config: return validated; main: cfg = validate_config(raw)
ValidateReturn ==
    /\ pc = "return"
    /\ cfg' = <<validated>>
    /\ pc' = "print_kv"
    /\ UNCHANGED <<fileKind, fileJson, fileOpen, openCount, raw, validated, exc,
                   stdout, stderr, exitCode>>

\* main: print_kv(cfg)
PrintKv ==
    /\ pc = "print_kv"
    /\ stdout' = stdout \o print_kv(cfg[1])
    /\ pc' = "end"
    /\ UNCHANGED <<fileKind, fileJson, fileOpen, openCount, raw, validated, exc,
                   cfg, stderr, exitCode>>

\* main returns: the interpreter exits with code 0
ExitOk ==
    /\ pc = "end"
    /\ exitCode' = 0
    /\ pc' = "exited"
    /\ UNCHANGED <<fileKind, fileJson, fileOpen, openCount, raw, validated, exc,
                   cfg, stdout, stderr>>

\* main: except ConfigError
HandleConfigError ==
    /\ pc = "raised"
    /\ exc[1].cls = "ConfigError"
    /\ stderr' = Append(stderr, [prefix |-> "CONFIG_ERROR", e |-> exc[1]])
    /\ exitCode' = 2
    /\ pc' = "exited"
    /\ UNCHANGED <<fileKind, fileJson, fileOpen, openCount, raw, validated, exc,
                   cfg, stdout>>

\* main: except Exception
HandleUnexpected ==
    /\ pc = "raised"
    /\ exc[1].cls # "ConfigError"
    /\ stderr' = Append(stderr, [prefix |-> "UNEXPECTED_ERROR", e |-> exc[1]])
    /\ exitCode' = 3
    /\ pc' = "exited"
    /\ UNCHANGED <<fileKind, fileJson, fileOpen, openCount, raw, validated, exc,
                   cfg, stdout>>

Next ==
    \/ LoadExists
    \/ LoadOpen
    \/ LoadRead
    \/ LoadIsDict
    \/ CheckPresence
    \/ CheckPackageName
    \/ CheckRepo
    \/ CheckTestMode
    \/ CheckVersion
    \/ CheckMaxDepth
    \/ ValidateReturn
    \/ PrintKv
    \/ ExitOk
    \/ HandleConfigError
    \/ HandleUnexpected

Spec == Init /\ [][Next]_vars

-----------------------------------------------------------------------------
(* Vocabulary of the properties *)

RequiredKeys == {"package_name", "repo", "test_mode", "version", "max_depth"}

FieldOrder == <<"package_name", "repo", "test_mode", "version", "max_depth">>

Min(S) == CHOOSE x \in S : \A y \in S : x <= y

\* the exception the check of one field raises on c, taken alone: <<>> or <<e>>
FieldError(key, c) ==
    LET f == [pc |-> "check_" , validated |-> <<>>, exc |-> <<>>]
    IN  CASE key = "package_name" -> check_package_name(f, c).exc
          [] key = "repo"         -> check_repo(f, c).exc
          [] key = "test_mode"    -> check_test_mode(f, c).exc
          [] key = "version"      -> check_version(f, c).exc
          [] key = "max_depth"    -> check_max_depth(f, c).exc

AbsentFields(c) == {i \in 1..5 : FieldOrder[i] \notin DOMAIN c}

FailingFields(c) == {i \in 1..5 : FieldError(FieldOrder[i], c) # <<>>}

\* the error of the first failing check in the stated order: <<>> or <<e>>
FirstFailure(c) ==
    IF AbsentFields(c) # {}
    THEN <<ConfigError("missing_key", FieldOrder[Min(AbsentFields(c))])>>
    ELSE IF FailingFields(c) # {}
    THEN FieldError(FieldOrder[Min(FailingFields(c))], c)
    ELSE <<>>

\* validate_config has returned or raised
Validated == raw # <<>> /\ pc \notin ValidatePcs

-----------------------------------------------------------------------------
\* C1: whenever validate_config returns, the returned mapping has exactly the
\* five keys package_name, repo, test_mode, version and max_depth.
C1_ReturnsFiveKeys ==
    cfg # <<>> => Len(cfg[1]) = 5 /\ DictKeys(cfg[1]) = RequiredKeys

\* C2: a successful run writes exactly five key=value lines to standard
\* output, in the order package_name, repo, test_mode, version, max_depth,
\* and exits with code 0; the scenario configuration prints its five lines.
C2_FiveLinesInOrder ==
    (pc = "exited" /\ raw # <<>> /\ exc = <<>>) =>
        /\ exitCode = 0
        /\ Len(stdout) = 5
        /\ \A i \in 1..5 : stdout[i][1] = FieldOrder[i] /\ stdout[i][2] = "="
        /\ raw[1] = AsObject(Scenario) =>
              stdout = << <<"package_name", "=", "p", "k", "g">>,
                          <<"repo", "=", "h", "t", "t", "p", "s", ":", "/", "/", "x">>,
                          <<"test_mode", "=", "T", "r", "u", "e">>,
                          <<"version", "=", "1", ".", "0">>,
                          <<"max_depth", "=", "4">> >>

\* C3: validate_config fails with the error of the first failing check in the
\* order presence of the five keys, then the value checks of package_name,
\* repo, test_mode, version, max_depth; it succeeds only when no check fails,
\* and a run reports at most one error, exactly one when it fails.
C3_FirstFailingCheck ==
    /\ Validated => exc = FirstFailure(raw[1])
    /\ Len(stderr) <= 1
    /\ (pc = "exited" /\ exc # <<>>) => Len(stderr) = 1 /\ stderr[1].e = exc[1]

\* a key is absent, an earlier key that is present is malformed, and the
\* error reported names the absent key
C3_Witness ==
    /\ pc = "exited"
    /\ raw # <<>>
    /\ "package_name" \in DOMAIN raw[1] /\ ~IsStr(raw[1]["package_name"])
    /\ "repo" \notin DOMAIN raw[1]
    /\ stderr = <<[prefix |-> "CONFIG_ERROR", e |-> ConfigError("missing_key", "repo")]>>

\* C4: every run ends with exit code 0, 2 or 3; a missing or invalid field
\* gives exit code 2 and one line prefixed by the configuration-error prefix;
\* exit code 3 is produced only by failures that are not missing/invalid
\* field, not-found, parse or root-shape errors.
C4_InvalidFieldExitsTwo ==
    pc = "exited" =>
        /\ exitCode \in {0, 2, 3}
        /\ exitCode = 3 => fileKind \in {"openfail", "readfail"}
        /\ (raw # <<>> /\ exc # <<>>) =>
              /\ exitCode = 2
              /\ Len(stderr) = 1 /\ stderr[1].prefix = "CONFIG_ERROR"

\* the max_depth check has acted: everything before it passed
DepthChecked ==
    /\ raw # <<>>
    /\ \/ pc = "return"
       \/ pc = "raised" /\ exc[1].key = "max_depth" /\ exc[1].msg # "missing_key"

DecimalOnly(s) == s # <<>> /\ \A i \in 1..Len(s) : s[i] \in DecimalChars

\* C5: max_depth succeeds with n exactly for an integral number n >= 1 and
\* for a string that, trimmed, holds only decimal digits denoting n >= 1; an
\* integral value below 1 fails with the range error and every other shape
\* (boolean, null, array, object, other numbers and strings) with the type
\* error.
C5_MaxDepthCoercion ==
    DepthChecked =>
        LET v == raw[1]["max_depth"]
            num == v.t \in {"int", "float"} /\ (v.t = "float" => v.sp = "fin" /\ ~v.h)
            str == IsStr(v) /\ DecimalOnly(Strip(v.s))
            n == IF num THEN v.n ELSE ParseInt(Strip(v.s))
        IN  IF (num \/ str) /\ v.sp = "big" THEN pc = "return"
            ELSE IF (num \/ str) /\ n >= 1
            THEN pc = "return" /\ DictVal(validated, "max_depth") = PyInt(n)
            ELSE IF num \/ str
            THEN exc = <<ConfigError("max_depth_range", "max_depth")>>
            ELSE exc = <<ConfigError("max_depth_type", "max_depth")>>

UpperChar(c) ==
    CASE c = "t" -> "T" [] c = "r" -> "R" [] c = "u" -> "U" [] c = "e" -> "E"
      [] c = "y" -> "Y" [] c = "s" -> "S" [] c = "f" -> "F" [] c = "a" -> "A"
      [] c = "l" -> "L" [] c = "n" -> "N" [] c = "o" -> "O" [] OTHER -> c

\* s is the word w in any letter case, between any number of blanks
IsWord(s, w) ==
    \E l \in 0..Len(s) :
        /\ l + Len(w) <= Len(s)
        /\ \A i \in 1..Len(s) :
              IF i <= l \/ i > l + Len(w) THEN s[i] = " "
              ELSE s[i] \in {w[i - l], UpperChar(w[i - l])}

SaysTrue(s)  == IsWord(s, <<"t", "r", "u", "e">>) \/ IsWord(s, <<"y", "e", "s">>)
                \/ IsWord(s, <<"1">>)
SaysFalse(s) == IsWord(s, <<"f", "a", "l", "s", "e">>) \/ IsWord(s, <<"n", "o">>)
                \/ IsWord(s, <<"0">>)

\* the test_mode check has acted
ModeChecked ==
    /\ raw # <<>>
    /\ \/ "test_mode" \in DictKeys(validated)
       \/ pc = "raised" /\ exc[1].key = "test_mode" /\ exc[1].msg # "missing_key"

\* C6: test_mode: a boolean is kept; a number is false when it is 0 or 0.0
\* and true otherwise; a string is true when, trimmed and lower-cased, it is
\* true / yes / 1, false when it is false / no / 0; every other string and
\* every other type fails with the coercion error and yields no boolean.
C6_TestModeCoercion ==
    ModeChecked =>
        LET v == raw[1]["test_mode"]
            stored(x) == /\ "test_mode" \in DictKeys(validated)
                         /\ DictVal(validated, "test_mode") = PyBool(x)
            failed == /\ "test_mode" \notin DictKeys(validated)
                      /\ exc = <<ConfigError("test_mode_coercion", "test_mode")>>
        IN  CASE v.t = "bool" -> stored(v.b)
              [] v.t \in {"int", "float"} ->
                   stored(~(v.sp = "fin" /\ v.n = 0 /\ ~v.h))
              [] v.t = "str" /\ SaysTrue(v.s)  -> stored(TRUE)
              [] v.t = "str" /\ SaysFalse(v.s) -> stored(FALSE)
              [] OTHER -> failed

\* " YES"-like input stored as true, in a run that went on to exit
C6_Witness ==
    /\ pc = "exited"
    /\ raw # <<>>
    /\ "test_mode" \in DOMAIN raw[1]
    /\ raw[1]["test_mode"] = Str(<<"Y", "E", "S">>)
    /\ DictVal(validated, "test_mode") = PyBool(TRUE)

\* C7: for package_name, repo and version: validation fails if the raw value
\* is not a string or its trimmed form is empty; otherwise the value stored
\* under that key is the raw string without leading and trailing whitespace.
C7_StringFieldsStored ==
    \A key \in {"package_name", "repo", "version"} :
        /\ cfg # <<>> =>
              /\ IsStr(raw[1][key]) /\ Strip(raw[1][key].s) # <<>>
              /\ key \in DictKeys(cfg[1])
              /\ DictVal(cfg[1], key) = Str(Strip(raw[1][key].s))
        /\ (Validated /\ key \in DOMAIN raw[1]
              /\ ~(IsStr(raw[1][key]) /\ Strip(raw[1][key].s) # <<>>)) => exc # <<>>

NonEmptyString(v) == IsStr(v) /\ Strip(v.s) # <<>>

\* every presence check and every field check succeeds on c
ChecksSucceed(c) ==
    /\ RequiredKeys \subseteq DOMAIN c
    /\ NonEmptyString(c["package_name"])
    /\ NonEmptyString(c["repo"])
    /\ coerce_bool(c["test_mode"]).ok
    /\ NonEmptyString(c["version"])
    /\ coerce_max_depth(c["max_depth"]).res = "ok"
    /\ coerce_max_depth(c["max_depth"]).n >= 1

\* C8: no partial ValidatedConfig is observable: the caller gets a mapping,
\* and standard output is written, only after the loader and all presence
\* and field checks have succeeded; a failed run hands over no mapping and
\* writes nothing to standard output.
C8_NoPartialConfig ==
    /\ (cfg # <<>> \/ stdout # <<>>) =>
          /\ raw # <<>> /\ exc = <<>>
          /\ ChecksSucceed(raw[1])
          /\ pc \in {"print_kv", "end", "exited"}
    /\ stdout # <<>> => cfg # <<>>
    /\ (exc # <<>> \/ exitCode \in {2, 3}) => cfg = <<>> /\ stdout = <<>>

\* a run that failed at the last check, with entries already in the local
\* dict, has handed over nothing and printed nothing
C8_Witness ==
    /\ pc = "exited"
    /\ exitCode = 2
    /\ Len(validated) = 3
    /\ exc[1].key = "max_depth"
    /\ cfg = <<>>
    /\ stdout = <<>>

Restrict(c, S) == [key \in DOMAIN c \cap S |-> c[key]]

\* C9: keys other than the five required ones are ignored: the outcome of
\* validate_config on a RawConfig (the mapping or the error) is its outcome
\* on the RawConfig cut down to the five required keys, and no other key
\* appears in the result or in the printed output.
C9_ExtraKeysIgnored ==
    Validated =>
        LET r == validate_config(Restrict(raw[1], RequiredKeys))
        IN  /\ exc = r.exc
            /\ validated = r.validated
            /\ (pc = "raised" \/ exc # <<>>) <=> r.pc = "raised"
            /\ cfg # <<>> => cfg[1] = r.validated /\ DictKeys(cfg[1]) \subseteq RequiredKeys
            /\ \A i \in 1..Len(stdout) : stdout[i][1] \in RequiredKeys
            /\ stdout # <<>> => stdout = print_kv(r.validated)

\* a RawConfig with an extra key was accepted and printed
C9_Witness ==
    /\ pc = "exited"
    /\ exitCode = 0
    /\ "comment" \in DOMAIN raw[1]
    /\ stdout # <<>>

\* C10: the file is opened at most once and is closed before the first check
\* of validate_config and before the process exits, on every path; the checks
\* run only after load_json returned a JSON object.
C10_FileClosedBeforeValidation ==
    /\ openCount <= 1
    /\ pc \in ValidatePcs \cup {"return", "print_kv", "end"} =>
          ~fileOpen /\ raw = <<fileJson>> /\ fileKind = "object" /\ openCount = 1
    /\ (validated # <<>> \/ cfg # <<>>) => raw # <<>>
    /\ pc \in {"raised", "exited"} => ~fileOpen
    /\ raw # <<>> => fileKind = "object" /\ ~fileOpen

\* a read that failed after the file was opened: the run ended with the
\* file closed
C10_Witness ==
    /\ pc = "exited"
    /\ fileKind = "readfail"
    /\ openCount = 1
    /\ ~fileOpen
    /\ exitCode = 3

====
